---------------------------- MODULE Spec2Model ----------------------------
(***************************************************************************)
(* A model of the secure-index programs: the Bloom filter package, the     *)
(* HMAC helpers of cryptoUtils, the index builder (siBuildIndex), the      *)
(* search client and the search server.                                    *)
(*                                                                         *)
(* Byte strings are sequences of 0..255.  File paths and response texts    *)
(* are sequences of tokens (strings); every token is either a separator,   *)
(* a bare name, ">" or a dot-extension, so that a token sequence stands    *)
(* for exactly one string and substring tests are tests on tokens.         *)
(***************************************************************************)
EXTENDS Integers, Sequences, FiniteSets, TLC

VARIABLES
    hmac,       \* the keyed hash: (message, key) -> 32-byte tag
    hashKeys,   \* builder/client: the key schedule, a sequence of keys
    files,      \* builder: the paths collected by filepath.Walk
    fileEncrypt, \* builder: the user answered y to "Encrypt files"
    fileIdx,    \* builder: position of the main loop in files
    bpc,        \* builder: where the builder is
    text,       \* builder: the Text of the current file
    filter,     \* builder: the BitArray of the current file
    kwIdx,      \* builder: number of keywords of the current file inserted
    disk,       \* builder: path -> CSV record written so far
    stderr,     \* builder: messages written by errorCheck
    failedAt,   \* builder: the paths whose index write met an I/O error
    fp,         \* key generation: the false-positive probability
    keys,       \* key generation: the keys generated so far
    kLoop,      \* key generation: the loop counter k
    kpc,        \* key generation: "loop" or "done"
    fHashes,    \* filter: first argument of Create
    fKeywords,  \* filter: second argument of Create
    fScaling,   \* filter: third argument of Create
    bits,       \* filter: the BitArray
    fpc,        \* filter: "new" before Create, "created" after
    fOp,        \* filter: the last call made on it, "Add" or "Search"
    fArg,       \* filter: the codewords of the last call
    fFound,     \* filter: what the last Search returned
    alive,      \* server: the process is running
    srvErr,     \* server: the line on stderr the process ended with, "" if none
    indexDir,   \* server: the files under "test/", in the order Walk lists them
    dialers,    \* server: the connections whose client will dial
    spc,        \* server: connection -> state of its handleConnection
    trapdoors,  \* server: connection -> the trapdoors decoded last
    results,    \* server: connection -> the results of the current search
    step,       \* server: connection -> how far its search or reply has come
    listed,     \* server: connection -> the name of the file at step is written
    written,    \* server: connection -> the responses written, one per request
    inbox,      \* wire: connection -> request frames not yet read by the server
    outbox,     \* wire: connection -> response text not yet read by the client
    cpc,        \* client: connection -> where the client is
    budget,     \* client: connection -> the number of keywords its user searches
    sent,       \* client: connection -> the keywords searched so far
    got,        \* client: connection -> the responses ReadString returned
    wKeys,      \* codec: the key schedule given to writeKeyFile
    wBits,      \* codec: the bit array given to writeSecureIndexFile
    keyFile,    \* codec: the key file, its text once written
    indexFile,  \* codec: the index file, its text once written
    rKeys,      \* codec: what readKeyfile returned
    rBits       \* codec: what ReadSecureIndexFile returned

cryptoVars == <<hmac, hashKeys>>
buildVars == <<files, fileEncrypt, fileIdx, bpc, text, filter, kwIdx, disk, stderr, failedAt>>
keyVars == <<fp, keys, kLoop, kpc>>
filtVars == <<fHashes, fKeywords, fScaling, bits, fpc, fOp, fArg, fFound>>
srvVars == <<alive, srvErr, indexDir, dialers, spc, trapdoors, results, step, listed, written,
             inbox, outbox, cpc, budget, sent, got>>
codecVars == <<wKeys, wBits, keyFile, indexFile, rKeys, rBits>>
vars == <<cryptoVars, buildVars, keyVars, filtVars, srvVars, codecVars>>

---------------------------------------------------------------------------
(* Bounds of the model *)

MaxKeys == 2        \* longest key schedule read from a key file
MaxFiles == 2       \* most files in one build batch
MaxCount == 6       \* largest keyword/hash count given to Create directly
MaxConns == 2       \* most connections the server is given
MaxRequests == 2    \* most keywords one client searches

---------------------------------------------------------------------------
(* Program constants *)

MaxVarintLen64 == 10        \* encoding/binary: bytes of a 64-bit varint
KeyBytes == 16              \* GenerateRandomBytes(16)
TagBytes == 32              \* size of an HMAC-SHA-256 tag
Ln2Num == 693147            \* math.Log(2) = Ln2Num / Ln2Den to six places
Ln2Den == 1000000
S_F == [num |-> 3, den |-> 2]       \* scaling factor 1.5
F_P == [num |-> 1, den |-> 100]     \* false-positive probability 0.01

Max(a, b) == IF a >= b THEN a ELSE b

---------------------------------------------------------------------------
(* Sample values of the inputs *)

Keywords == {"foo", "bar"}
ByteSample == {1, 131}

\* n bytes from crypto/rand: the first byte and the filling byte are free
RandomBytes(n) ==
    {[i \in 1..n |-> IF i = 1 THEN b1 ELSE b2] : b1 \in ByteSample, b2 \in ByteSample}

HashKeySample == {[i \in 1..KeyBytes |-> b] : b \in {17, 34}}
Tags == {[i \in 1..TagBytes |-> IF i = 1 THEN b ELSE 1] : b \in {5, 131}}

SeqsUpTo(S, n) == UNION {[1..l -> S] : l \in 0..n}
Range(s) == {s[i] : i \in DOMAIN s}
IsInjective(s) == \A i, j \in DOMAIN s : s[i] = s[j] => i = j

---------------------------------------------------------------------------
(* encoding/binary.Uvarint.  The decoded value is kept as its base-128     *)
(* digits, least significant first, so that 64-bit values need no wide     *)
(* integer; n is the number of bytes read, 0 when the buffer ends before    *)
(* the value does, negative on overflow; the value is then 0.              *)

RECURSIVE UvarintFrom(_, _, _)
UvarintFrom(buf, i, digits) ==
    IF i > Len(buf) THEN [x |-> <<>>, n |-> 0]
    ELSE IF i = MaxVarintLen64 + 1 THEN [x |-> <<>>, n |-> -i]
    ELSE IF buf[i] < 128
         THEN IF i = MaxVarintLen64 /\ buf[i] > 1
              THEN [x |-> <<>>, n |-> -i]
              ELSE [x |-> Append(digits, buf[i]), n |-> i]
         ELSE UvarintFrom(buf, i + 1, Append(digits, buf[i] % 128))

\* a Uvarint that keeps, on overflow, the low 64 bits of what it had decoded
UvarintLow64(buf) ==
    LET r == UvarintFrom(buf, 1, <<>>)
    IN  IF r.n < 0
        THEN [x |-> [i \in 1..MaxVarintLen64 |->
                        IF i < MaxVarintLen64 THEN buf[i] % 128 ELSE buf[i] % 2],
              n |-> r.n]
        ELSE r

Uvarint(buf) == UvarintFrom(buf, 1, <<>>)

\* x % m for a value given by its base-128 digits
RECURSIVE U64Mod(_, _)
U64Mod(digits, m) ==
    IF digits = <<>> THEN 0
    ELSE (U64Mod(Tail(digits), m) * 128 + Head(digits)) % m

---------------------------------------------------------------------------
(* package bloomFilter.  A BitArray is a sequence of BOOLEAN; bit i of the *)
(* Go slice is element i + 1.                                              *)

\* math.Round(a / b) for a >= 0, b > 0: halves round away from zero
RoundDiv(a, b) == (2 * a + b) \div (2 * b)

\* a Create that converts with int(m), dropping the fraction
FilterSizeTruncated(hashes, keywords, scaling) ==
    (keywords * scaling.num * hashes * Ln2Den) \div (scaling.den * Ln2Num)

\* the size computed by Create
FilterSize(hashes, keywords, scaling) ==
    RoundDiv(keywords * scaling.num * hashes * Ln2Den, scaling.den * Ln2Num)

Create(hashes, keywords, scaling) ==
    [i \in 1..FilterSize(hashes, keywords, scaling) |-> FALSE]

\* x % uint64(filterSize) divides by zero when the filter is empty
FindPositionsPanics(codewords, filterSize) ==
    Len(codewords) > 0 /\ filterSize = 0

findPositions(codewords, filterSize) ==
    [c \in 1..Len(codewords) |-> U64Mod(Uvarint(codewords[c]).x, filterSize)]

\* an Add whose loop stops one position short
AddAllButLast(bitArray, codewords) ==
    LET indexPositions == findPositions(codewords, Len(bitArray))
    IN  [i \in 1..Len(bitArray) |->
            IF \E c \in 1..Len(indexPositions) - 1 : indexPositions[c] + 1 = i
            THEN TRUE ELSE bitArray[i]]

\* an Add that flips the addressed bits instead of setting them
AddToggles(bitArray, codewords) ==
    LET indexPositions == findPositions(codewords, Len(bitArray))
    IN  [i \in 1..Len(bitArray) |->
            IF \E c \in DOMAIN indexPositions : indexPositions[c] + 1 = i
            THEN ~bitArray[i] ELSE bitArray[i]]

Add(bitArray, codewords) ==
    LET indexPositions == findPositions(codewords, Len(bitArray))
    IN  [i \in 1..Len(bitArray) |->
            IF \E c \in DOMAIN indexPositions : indexPositions[c] + 1 = i
            THEN TRUE ELSE bitArray[i]]

Search(bitArray, codewords) ==
    LET indexPositions == findPositions(codewords, Len(bitArray))
    IN  \A c \in DOMAIN indexPositions : bitArray[indexPositions[c] + 1]

---------------------------------------------------------------------------
(* package cryptoUtils *)

\* createHMAC: HMAC-SHA-256 as the table h of the tags it returns
createHMAC(h, m, k) == h[<<m, k>>]

\* a keyword is hashed as the one-token string it is
BuildTrapdoors(h, keyword, ks) ==
    [i \in 1..Len(ks) |-> createHMAC(h, <<keyword>>, ks[i])]

BuildCodewords(h, filename, tdoors) ==
    [i \in 1..Len(tdoors) |-> createHMAC(h, filename, tdoors[i])]

\* SecureIndex.Build: the codewords left in si.Codewords
Build(h, filename, keyword, ks) ==
    BuildCodewords(h, filename, BuildTrapdoors(h, keyword, ks))

\* the length of the random buffer of Blind
BlindingFactor(numKeywords, docSize, numKeys) ==
    (docSize - numKeywords) * numKeys

\* make([]byte, b_f) panics on a negative length, Add on an empty filter
BlindPanics(bitArray, numKeywords, docSize, numKeys) ==
    \/ BlindingFactor(numKeywords, docSize, numKeys) < 0
    \/ Len(bitArray) = 0

\* a Blind that inserts every byte of the buffer as an entry of its own
BlindEachByte(bitArray, randomBytes) ==
    Add(bitArray, [i \in 1..Len(randomBytes) |-> <<randomBytes[i]>>])

\* SecureIndex.Blind with randomBytes the buffer drawn from crypto/rand
Blind(bitArray, randomBytes) == Add(bitArray, <<randomBytes>>)

\* round(|log2 p|) for p = num/den with 0 < p: the r with
\* 2^(r - 1/2) <= max(p, 1/p) < 2^(r + 1/2), compared on the squares
RECURSIVE Pow2(_)
Pow2(e) == IF e = 0 THEN 1 ELSE 2 * Pow2(e - 1)

RECURSIVE RoundLog2From(_, _, _)
RoundLog2From(big, small, r) ==
    IF big * big < Pow2(2 * r + 1) * small * small THEN r
    ELSE RoundLog2From(big, small, r + 1)

RoundAbsLog2(p) == RoundLog2From(Max(p.num, p.den), IF p.num >= p.den THEN p.den ELSE p.num, 0)

---------------------------------------------------------------------------
(* Strings as token sequences *)

Contains(s, tok) == \E i \in DOMAIN s : s[i] = tok
HasSuffix(s, tok) == Len(s) > 0 /\ s[Len(s)] = tok

\* the index of the last separator token of a path, 0 when it has none
RECURSIVE LastSep(_, _, _)
LastSep(path, sep, i) ==
    IF i = 0 THEN 0
    ELSE IF path[i] = sep THEN i
    ELSE LastSep(path, sep, i - 1)

\* splitName[len(splitName)-1] of strings.Split(file, sep), sep chosen as main does
FileName(path) ==
    LET sep == IF Contains(path, "\\") THEN "\\" ELSE "/"
        at == LastSep(path, sep, Len(path))
    IN  SubSeq(path, at + 1, Len(path))

---------------------------------------------------------------------------
(* siBuildIndex: the documents of the build directory *)

filetypes == {".txt", ".csv", ".rtf", ".pdf"}

\* what textExtract yields for each file of the directory: the deduplicated
\* keywords and the length of the raw text
DocCatalogue ==
    [path \in {<<"test", "/", "a", ".txt">>,
               <<"test", "/", "b", ".pdf">>,
               <<"test", "/", "a", ".sindex", ".txt">>,
               <<"test", "/", "a", ".txt", ".bak">>,
               <<"test", "/", "e", ".csv">>,
               <<"test", "/", "c", ".doc">>} |->
        CASE path = <<"test", "/", "a", ".txt">> ->
                [Keywords |-> <<"foo">>, RawTextLen |-> 3]
          [] path = <<"test", "/", "b", ".pdf">> ->
                [Keywords |-> <<"foo", "bar">>, RawTextLen |-> 3]
          [] path = <<"test", "/", "a", ".sindex", ".txt">> ->
                [Keywords |-> <<"bar", "foo">>, RawTextLen |-> 2]
          [] path = <<"test", "/", "a", ".txt", ".bak">> ->
                [Keywords |-> <<"bar">>, RawTextLen |-> 1]
          [] OTHER ->
                [Keywords |-> <<>>, RawTextLen |-> 0]]

\* index files found under "test/" that no build of the catalogue wrote: a
\* file the CSV reader rejects, one with a field "2", an empty one, and the
\* index of a document whose name holds the character >
StrayCatalogue ==
    [path \in {<<"test", "/", "bad", ".sindex">>,
               <<"test", "/", "empty", ".sindex">>,
               <<"test", "/", "n", ">", ".txt", ".sindex">>,
               <<"test", "/", "two", ".sindex">>} |->
        CASE path = <<"test", "/", "bad", ".sindex">> ->
                [err |-> TRUE, records |-> <<>>]
          [] path = <<"test", "/", "empty", ".sindex">> ->
                [err |-> FALSE, records |-> <<>>]
          [] path = <<"test", "/", "two", ".sindex">> ->
                [err |-> FALSE, records |-> <<<<"2", "0">>>>]
          [] OTHER ->
                [err |-> FALSE, records |-> <<<<"1", "1">>>>]]

\* every path of the model in the lexical order filepath.Walk follows
WalkOrder ==
    <<<<"test", "/", "a", ".sindex", ".txt">>,
      <<"test", "/", "a", ".sindex", ".txt", ".sindex">>,
      <<"test", "/", "a", ".txt">>,
      <<"test", "/", "a", ".txt", ".bak">>,
      <<"test", "/", "a", ".txt", ".bak", ".sindex">>,
      <<"test", "/", "a", ".txt", ".sindex">>,
      <<"test", "/", "b", ".pdf">>,
      <<"test", "/", "b", ".pdf", ".sindex">>,
      <<"test", "/", "bad", ".sindex">>,
      <<"test", "/", "c", ".doc">>,
      <<"test", "/", "e", ".csv">>,
      <<"test", "/", "empty", ".sindex">>,
      <<"test", "/", "n", ">", ".txt", ".sindex">>,
      <<"test", "/", "two", ".sindex">>>>

\* the directory the user names to siBuildIndex, and the dirpath of the server
BuildRoot == <<"test">>
ServerRoot == <<"test", "/">>

\* the list filepath.Walk collects when the paths of present exist: the root
\* as it was given, then the files below it
Walk(root, present) ==
    <<root>> \o SelectSeq(WalkOrder, LAMBDA path : path \in present)

SubsetsUpTo(S, n) == {T \in SUBSET S : Cardinality(T) <= n}

\* the file lists main can be given: up to MaxFiles documents
Batches == {Walk(BuildRoot, S) : S \in SubsetsUpTo(DOMAIN DocCatalogue, MaxFiles)}

\* the key schedules readKeyfile can return
KeySchedules == SeqsUpTo(HashKeySample, MaxKeys)

\* indexFlag of main
IndexFlag(file) == \E ft \in filetypes : Contains(file, ft)

\* the keywords of the files of a batch that main indexes
BatchKeywords(batch) ==
    UNION {{<<w>> : w \in Range(DocCatalogue[batch[f]].Keywords)} :
              f \in {g \in DOMAIN batch : IndexFlag(batch[g])}}

\* the names main passes to Build for the files of a batch
BatchNames(batch) ==
    {FileName(batch[f]) : f \in {g \in DOMAIN batch : IndexFlag(batch[g])}}

\* every keyed hash over (msgs x ks) and then over (names x the tags so made)
HmacChoices(msgs, ks, names) ==
    UNION {{[d \in (msgs \X ks) \cup (names \X Range(hT)) |->
                IF d \in DOMAIN hT THEN hT[d] ELSE hC[d]] :
               hC \in [names \X Range(hT) -> Tags]} :
           hT \in [msgs \X ks -> Tags]}

---------------------------------------------------------------------------
(* siBuildIndex: writeToCSV, writeSecureIndexFile and main *)

\* the CSV record writeSecureIndexFile makes of a BitArray
FormatIndex(indexArray) ==
    [i \in 1..Len(indexArray) |-> IF indexArray[i] THEN "1" ELSE "0"]

WriteOutcomes == {"written", "createFails", "writeFails"}

\* writeToCSV: the error it returns.  A failing os.Create is returned; a
\* failing w.Write returns err, the nil error of os.Create.
writeToCSVError(outcome) == outcome = "createFails"

\* writeToCSV: the file left on disk; none when os.Create failed, an empty one
\* when the write failed after the file was created
writeToCSVFile(outcome, data) ==
    IF outcome = "written" THEN <<data>> ELSE <<>>

CurFile == files[fileIdx]
NumKeywords == Len(text.Keywords)

\* main, lines 187-198: a file with no file type in its path is passed over
SkipFile ==
    /\ bpc = "loop"
    /\ fileIdx <= Len(files)
    /\ ~IndexFlag(CurFile)
    /\ fileIdx' = fileIdx + 1
    /\ UNCHANGED <<files, fileEncrypt, bpc, text, filter, kwIdx, disk, stderr, failedAt>>
    /\ UNCHANGED <<cryptoVars, keyVars, codecVars, filtVars, srvVars>>

\* main, lines 198-211: extract the text and keywords, create the filter
StartFile ==
    /\ bpc = "loop"
    /\ fileIdx <= Len(files)
    /\ IndexFlag(CurFile)
    /\ text' = DocCatalogue[CurFile]
    /\ filter' = Create(Len(DocCatalogue[CurFile].Keywords), Len(hashKeys), S_F)
    /\ kwIdx' = 0
    /\ bpc' = "keywords"
    /\ UNCHANGED <<files, fileEncrypt, fileIdx, disk, stderr, failedAt>>
    /\ UNCHANGED <<cryptoVars, keyVars, codecVars, filtVars, srvVars>>

\* main, lines 225-228: one turn of the keyword loop
AddKeyword ==
    /\ bpc = "keywords"
    /\ kwIdx < NumKeywords
    /\ LET codewords == Build(hmac, FileName(CurFile), text.Keywords[kwIdx + 1],
                               hashKeys)
       IN  IF FindPositionsPanics(codewords, Len(filter))
           THEN /\ bpc' = "panic"
                /\ UNCHANGED <<filter, kwIdx>>
           ELSE /\ filter' = Add(filter, codewords)
                /\ kwIdx' = kwIdx + 1
                /\ bpc' = bpc
    /\ UNCHANGED <<files, fileEncrypt, fileIdx, text, disk, stderr, failedAt>>
    /\ UNCHANGED <<cryptoVars, keyVars, codecVars, filtVars, srvVars>>

\* main, line 231: blinding, after the last keyword
BlindIndex ==
    /\ bpc = "keywords"
    /\ kwIdx = NumKeywords
    /\ IF BlindPanics(filter, NumKeywords, text.RawTextLen, Len(hashKeys))
       THEN /\ bpc' = "panic"
            /\ UNCHANGED filter
       ELSE /\ \E randomBytes \in RandomBytes(
                     BlindingFactor(NumKeywords, text.RawTextLen, Len(hashKeys))) :
                  filter' = Blind(filter, randomBytes)
            /\ bpc' = "write"
    /\ UNCHANGED <<files, fileEncrypt, fileIdx, text, kwIdx, disk, stderr, failedAt>>
    /\ UNCHANGED <<cryptoVars, keyVars, codecVars, filtVars, srvVars>>

\* main, lines 234-235: write the index file; errorCheck exits on an error
WriteIndex ==
    /\ bpc = "write"
    /\ \E outcome \in WriteOutcomes :
         LET target == CurFile \o <<".sindex">>
             left == writeToCSVFile(outcome, FormatIndex(filter))
         IN  /\ failedAt' = IF outcome = "written" THEN failedAt
                            ELSE failedAt \cup {CurFile}
             /\ disk' = IF outcome = "createFails" THEN disk
                        ELSE [q \in DOMAIN disk \cup {target} |->
                                 IF q = target THEN left ELSE disk[q]]
             /\ IF writeToCSVError(outcome)
                THEN /\ stderr' = Append(stderr,
                            "ERROR: unable to write secure index to file.")
                     /\ bpc' = "exit"
                     /\ UNCHANGED fileIdx
                ELSE /\ bpc' = IF fileEncrypt THEN "encrypt" ELSE "loop"
                     /\ fileIdx' = IF fileEncrypt THEN fileIdx ELSE fileIdx + 1
                     /\ UNCHANGED stderr
    /\ UNCHANGED <<files, fileEncrypt, text, filter, kwIdx>>
    /\ UNCHANGED <<cryptoVars, keyVars, codecVars, filtVars, srvVars>>

\* Encrypt: the document cannot be read, the encrypted file cannot be
\* written, the key cannot be written, or both files are written
EncryptOutcomes == {"encrypted", "readFails", "dataFails", "keyFails"}

\* the message errorCheck prints for a failure of Encrypt
EncryptMessage(outcome) ==
    CASE outcome = "readFails" -> "ERROR: unable to read file for encryption."
      [] outcome = "dataFails" -> "ERROR: unable to write encrypted file."
      [] OTHER -> "ERROR: unable to write private key."

\* the directory of the key file path, as path.Split gives it
KeyFileDir == <<"keys", "/">>

\* main, lines 238-241, and cryptoUtils.Encrypt: the document is sealed into
\* file + ".encrypted.data" and its key saved under the directory of the
\* key file; errorCheck exits on the first failure
EncryptFile ==
    /\ bpc = "encrypt"
    /\ \E outcome \in EncryptOutcomes :
         LET data == CurFile \o <<".encrypted.data">>
             key == KeyFileDir \o FileName(CurFile) \o <<".encrypted.private">>
             left == CASE outcome = "encrypted" -> {data, key}
                       [] outcome = "keyFails" -> {data}
                       [] OTHER -> {}
         IN  /\ disk' = [q \in DOMAIN disk \cup left |->
                            IF q = data THEN <<<<"ciphertext">>>>
                            ELSE IF q = key THEN <<<<"key">>>>
                            ELSE disk[q]]
             /\ IF outcome = "encrypted"
                THEN /\ bpc' = "loop"
                     /\ fileIdx' = fileIdx + 1
                     /\ UNCHANGED stderr
                ELSE /\ stderr' = Append(stderr, EncryptMessage(outcome))
                     /\ bpc' = "exit"
                     /\ UNCHANGED fileIdx
    /\ UNCHANGED <<files, fileEncrypt, text, filter, kwIdx, failedAt>>
    /\ UNCHANGED <<cryptoVars, keyVars, codecVars, filtVars, srvVars>>

\* main, line 245: the loop is over
FinishBuild ==
    /\ bpc = "loop"
    /\ fileIdx > Len(files)
    /\ bpc' = "done"
    /\ UNCHANGED <<files, fileEncrypt, fileIdx, text, filter, kwIdx, disk, stderr, failedAt>>
    /\ UNCHANGED <<cryptoVars, keyVars, codecVars, filtVars, srvVars>>

---------------------------------------------------------------------------
(* cryptoUtils.GenerateHashKeys *)

FpSample == {[num |-> 1, den |-> 100], [num |-> 1, den |-> 2],
             [num |-> 1, den |-> 4], [num |-> 1, den |-> 20],
             [num |-> 1, den |-> 10], [num |-> 3, den |-> 10]}

\* kHashes of GenerateHashKeys
kHashes(p) == RoundAbsLog2(p)

\* the loop condition k <= int(kHashes)
KeyLoopContinues(k, p) == k <= kHashes(p)

KeysIdle ==
    /\ fp = F_P
    /\ keys = <<>>
    /\ kLoop = 0
    /\ kpc = "idle"

BuildIdle ==
    /\ files = <<>>
    /\ fileEncrypt = FALSE
    /\ fileIdx = 1
    /\ bpc = "idle"
    /\ text = [Keywords |-> <<>>, RawTextLen |-> 0]
    /\ filter = <<>>
    /\ kwIdx = 0
    /\ disk = <<>>
    /\ stderr = <<>>
    /\ failedAt = {}

CryptoIdle ==
    /\ hmac = <<>>
    /\ hashKeys = <<>>

\* no call has been made on the filter yet
FilterUncalled ==
    /\ fOp = ""
    /\ fArg = <<>>
    /\ fFound = FALSE

FilterIdle ==
    /\ fHashes = 0
    /\ fKeywords = 0
    /\ fScaling = S_F
    /\ bits = <<>>
    /\ fpc = "idle"
    /\ FilterUncalled

\* one turn of the loop: a fresh 16-byte key is appended
GenerateKey ==
    /\ kpc = "loop"
    /\ KeyLoopContinues(kLoop, fp)
    /\ \E key \in RandomBytes(KeyBytes) : keys' = Append(keys, key)
    /\ kLoop' = kLoop + 1
    /\ UNCHANGED <<fp, kpc, cryptoVars, buildVars, filtVars, codecVars, srvVars>>

\* the loop ends and keys is returned
ReturnKeys ==
    /\ kpc = "loop"
    /\ ~KeyLoopContinues(kLoop, fp)
    /\ kpc' = "done"
    /\ UNCHANGED <<fp, keys, kLoop, cryptoVars, buildVars, filtVars, codecVars, srvVars>>

---------------------------------------------------------------------------
(* package bloomFilter on its own: Create, then Add with any codewords *)

ScalingSample == {[num |-> 3, den |-> 2], [num |-> 1, den |-> 1],
                  [num |-> 1, den |-> 2], [num |-> 5, den |-> 2]}

\* buffers of ten bytes and more: the largest 64-bit value, a tenth byte
\* above 1, and eleven bytes that all have the continuation bit
LongCodewords ==
    {[i \in 1..MaxVarintLen64 |-> IF i < MaxVarintLen64 THEN 255 ELSE 1],
     [i \in 1..MaxVarintLen64 |-> IF i < MaxVarintLen64 THEN 131 ELSE 5],
     [i \in 1..MaxVarintLen64 + 1 |-> 131]}

\* byte strings given to Add as codewords: tags and random buffers
CodewordSample == Tags \cup RandomBytes(1) \cup RandomBytes(2) \cup LongCodewords

CodewordTuples == {<<c>> : c \in CodewordSample} \cup {<<c, d>> : c, d \in Tags}

\* the codeword slices a caller can pass: the tuples, and the empty slice
CodewordArgs == CodewordTuples \cup {<<>>}

\* BloomFilter.Create
CreateFilter ==
    /\ fpc = "new"
    /\ bits' = Create(fHashes, fKeywords, fScaling)
    /\ fpc' = "created"
    /\ UNCHANGED <<fHashes, fKeywords, fScaling, fOp, fArg, fFound>>
    /\ UNCHANGED <<cryptoVars, buildVars, keyVars, codecVars, srvVars>>

\* BloomFilter.Add; the division by zero of findPositions is a panic
AddCodewords ==
    /\ fpc = "created"
    /\ \E codewords \in CodewordArgs :
         /\ fArg' = codewords
         /\ IF FindPositionsPanics(codewords, Len(bits))
            THEN /\ fpc' = "panic"
                 /\ UNCHANGED bits
            ELSE /\ bits' = Add(bits, codewords)
                 /\ fpc' = fpc
    /\ fOp' = "Add"
    /\ UNCHANGED <<fHashes, fKeywords, fScaling, fFound>>
    /\ UNCHANGED <<cryptoVars, buildVars, keyVars, codecVars, srvVars>>

\* BloomFilter.Search; the division by zero of findPositions is a panic
SearchCodewords ==
    /\ fpc = "created"
    /\ \E codewords \in CodewordArgs :
         /\ fArg' = codewords
         /\ IF FindPositionsPanics(codewords, Len(bits))
            THEN /\ fpc' = "panic"
                 /\ UNCHANGED fFound
            ELSE /\ fFound' = Search(bits, codewords)
                 /\ fpc' = fpc
    /\ fOp' = "Search"
    /\ UNCHANGED <<fHashes, fKeywords, fScaling, bits>>
    /\ UNCHANGED <<cryptoVars, buildVars, keyVars, codecVars, srvVars>>

---------------------------------------------------------------------------
(* The wire: encoding/json of a [][]byte *)

\* a Go slice: nil, or its elements
Slice(elems) == [nil |-> FALSE, elems |-> elems]
NilSlice == [nil |-> TRUE, elems |-> <<>>]

NullFrame == [kind |-> "null", items |-> <<>>]
GarbageFrame == [kind |-> "garbage", items |-> <<>>]

\* json.Encoder.Encode: nil is written as null, a slice as an array of strings
jsonEncode(v) ==
    IF v.nil THEN NullFrame ELSE [kind |-> "array", items |-> v.elems]

\* a decoder that leaves the slice empty, and not nil, on null
jsonDecodeKeepsSlice(frame) ==
    CASE frame.kind = "array" -> [err |-> FALSE, value |-> Slice(frame.items)]
      [] frame.kind = "null" -> [err |-> FALSE, value |-> Slice(<<>>)]
      [] OTHER -> [err |-> TRUE, value |-> Slice(<<>>)]

\* json.Decoder.Decode into a [][]byte: null sets the slice to nil
jsonDecode(frame) ==
    CASE frame.kind = "null" -> [err |-> FALSE, value |-> NilSlice]
      [] frame.kind = "array" -> [err |-> FALSE, value |-> Slice(frame.items)]
      [] OTHER -> [err |-> TRUE, value |-> Slice(<<>>)]

---------------------------------------------------------------------------
(* siSearchServer *)

Conns == 1..MaxConns

HdrChecked == "Checked the following indexes:"
HdrMatches == "Keyword matches found:"
NoMatches == " -No matches found."

\* what the process writes to stderr as it ends
MsgDecode == "ERROR: unable to read data sent from TCP client."
MsgIndex == "ERROR: unable to read secure index file."
MsgPanic == "panic: runtime error: integer divide by zero"

\* strings.Replace(s, tok, "", -1)
RemoveAll(s, tok) == SelectSeq(s, LAMBDA t : t # tok)

\* the document name handleConnection hashes for an index file
RecoveredName(path) == RemoveAll(FileName(path), ".sindex")

RECURSIVE Flatten(_)
Flatten(records) ==
    IF records = <<>> THEN <<>> ELSE Head(records) \o Flatten(Tail(records))

\* ReadSecureIndexFile: a field that is not "0" is a set bit
ReadSecureIndexFile(content) ==
    IF content.err THEN [err |-> TRUE, si |-> <<>>]
    ELSE [err |-> FALSE,
          si |-> [i \in 1..Len(Flatten(content.records)) |->
                     Flatten(content.records)[i] # "0"]]

\* handleConnection, lines 257-259: the position of the first index file of
\* the walk at or after position i, past the end when there is none
NextIndexFile(i) ==
    IF \E j \in i..Len(indexDir) : HasSuffix(indexDir[j].path, ".sindex")
    THEN CHOOSE j \in i..Len(indexDir) :
            /\ HasSuffix(indexDir[j].path, ".sindex")
            /\ \A k \in i..j - 1 : ~HasSuffix(indexDir[k].path, ".sindex")
    ELSE Len(indexDir) + 1

\* fmt.Sprintf(" -%s\n", name)
Line(name) == <<" -">> \o name \o <<"\n">>

\* the number of writes the reply makes between its header and its end
ReplyLines(res) == IF Len(res) > 0 THEN Len(res) ELSE 1

\* the keyed hash is fixed on an input when it is first asked for it
Extensions(h, inputs) ==
    {[d \in DOMAIN h \cup inputs |-> IF d \in DOMAIN h THEN h[d] ELSE e[d]] :
        e \in [inputs \ DOMAIN h -> Tags]}

\* os.Exit and an unrecovered panic end the process and every connection
ProcessDies(msg) ==
    /\ alive' = FALSE
    /\ srvErr' = msg
    /\ spc' = [d \in Conns |-> IF spc[d] = "LISTENING" THEN spc[d] ELSE "CLOSED"]

\* main, lines 342-351: a client dials, the server accepts and starts a task
Accept(c) ==
    /\ alive
    /\ c \in dialers
    /\ spc[c] = "LISTENING"
    /\ cpc[c] = "idle"
    /\ spc' = [spc EXCEPT ![c] = "RECEIVING"]
    /\ cpc' = [cpc EXCEPT ![c] = "prompt"]
    /\ UNCHANGED <<alive, srvErr, indexDir, dialers, trapdoors, results, step, listed,
                   written, inbox, outbox, budget, sent, got>>
    /\ UNCHANGED <<cryptoVars, buildVars, keyVars, codecVars, filtVars>>

\* handleConnection, lines 232-240: decode one frame; errorCheck exits on a
\* decode error or on the end of the stream; a nil slice ends the task
Receive(c) ==
    /\ alive
    /\ spc[c] = "RECEIVING"
    /\ inbox[c] # <<>> \/ cpc[c] = "closed"
    /\ IF inbox[c] = <<>> \/ jsonDecode(Head(inbox[c])).err
       THEN /\ ProcessDies(MsgDecode)
            /\ UNCHANGED trapdoors
       ELSE /\ trapdoors' = [trapdoors EXCEPT ![c] = jsonDecode(Head(inbox[c])).value]
            /\ spc' = [spc EXCEPT ![c] =
                          IF jsonDecode(Head(inbox[c])).value.nil
                          THEN "CLOSED" ELSE "SEARCHING"]
            /\ UNCHANGED <<alive, srvErr>>
    /\ inbox' = [inbox EXCEPT ![c] = IF @ = <<>> THEN @ ELSE Tail(@)]
    /\ UNCHANGED <<indexDir, dialers, results, step, listed, written, outbox, cpc,
                   budget, sent, got>>
    /\ UNCHANGED <<cryptoVars, buildVars, keyVars, codecVars, filtVars>>

\* handleConnection, lines 242-255: walk the directory, start with no results
\* and write the header of the listing
SearchIndexes(c) ==
    /\ alive
    /\ spc[c] = "SEARCHING"
    /\ step[c] = 0
    /\ outbox' = [outbox EXCEPT ![c] = Append(@, HdrChecked)]
    /\ written' = [written EXCEPT ![c] = Append(@, <<HdrChecked>>)]
    /\ results' = [results EXCEPT ![c] = <<>>]
    /\ IF NextIndexFile(1) > Len(indexDir)
       THEN /\ spc' = [spc EXCEPT ![c] = "REPLYING"]
            /\ UNCHANGED step
       ELSE /\ step' = [step EXCEPT ![c] = NextIndexFile(1)]
            /\ UNCHANGED spc
    /\ UNCHANGED <<alive, srvErr, indexDir, dialers, trapdoors, listed, inbox, cpc,
                   budget, sent, got>>
    /\ UNCHANGED <<cryptoVars, buildVars, keyVars, codecVars, filtVars>>

\* handleConnection, lines 257-260: the loop comes to an index file and
\* writes its name on the connection
ListFile(c) ==
    /\ alive
    /\ spc[c] = "SEARCHING"
    /\ step[c] > 0
    /\ ~listed[c]
    /\ outbox' = [outbox EXCEPT ![c] = @ \o Line(indexDir[step[c]].path)]
    /\ written' = [written EXCEPT ![c] =
                      [@ EXCEPT ![Len(@)] = @ \o Line(indexDir[step[c]].path)]]
    /\ listed' = [listed EXCEPT ![c] = TRUE]
    /\ UNCHANGED <<alive, srvErr, indexDir, dialers, spc, trapdoors, results, step,
                   inbox, cpc, budget, sent, got>>
    /\ UNCHANGED <<cryptoVars, buildVars, keyVars, codecVars, filtVars>>

\* handleConnection, lines 262-286: the file whose name was written is read
\* and searched: errorCheck exits on a read error, findPositions divides by
\* zero on an index of no bits; the loop then goes to the next index file
SearchFile(c) ==
    /\ alive
    /\ spc[c] = "SEARCHING"
    /\ step[c] > 0
    /\ listed[c]
    /\ LET file == indexDir[step[c]].path
           read == ReadSecureIndexFile(indexDir[step[c]].content)
           td == trapdoors[c].elems
       IN  \E h \in Extensions(hmac, {RecoveredName(file)} \X Range(td)) :
             /\ hmac' = h
             /\ \E codewords \in {BuildCodewords(h, RecoveredName(file), td)} :
                  IF read.err
                  THEN /\ ProcessDies(MsgIndex)
                       /\ UNCHANGED <<results, step, listed>>
                  ELSE IF FindPositionsPanics(codewords, Len(read.si))
                  THEN /\ ProcessDies(MsgPanic)
                       /\ UNCHANGED <<results, step, listed>>
                  ELSE /\ results' = [results EXCEPT ![c] =
                             IF Search(read.si, codewords)
                             THEN Append(@, Line(RecoveredName(file)))
                             ELSE @]
                       /\ listed' = [listed EXCEPT ![c] = FALSE]
                       /\ IF NextIndexFile(step[c] + 1) > Len(indexDir)
                          THEN /\ spc' = [spc EXCEPT ![c] = "REPLYING"]
                               /\ step' = [step EXCEPT ![c] = 0]
                          ELSE /\ step' = [step EXCEPT ![c] =
                                              NextIndexFile(step[c] + 1)]
                               /\ UNCHANGED spc
                       /\ UNCHANGED <<alive, srvErr>>
    /\ UNCHANGED <<hashKeys, indexDir, dialers, trapdoors, written, inbox, outbox,
                   cpc, budget, sent, got>>
    /\ UNCHANGED <<buildVars, keyVars, codecVars, filtVars>>

\* handleConnection, lines 288-299: the reply, one write at a time: its
\* header, each result (or the line that says there is none), the final ">"
Reply(c) ==
    /\ alive
    /\ spc[c] = "REPLYING"
    /\ \E chunk \in {IF step[c] = 0 THEN <<HdrMatches>>
                     ELSE IF step[c] > ReplyLines(results[c]) THEN <<"\n", ">">>
                     ELSE IF results[c] = <<>> THEN <<NoMatches>>
                     ELSE results[c][step[c]]} :
         /\ outbox' = [outbox EXCEPT ![c] = @ \o chunk]
         /\ written' = [written EXCEPT ![c] = [@ EXCEPT ![Len(@)] = @ \o chunk]]
    /\ IF step[c] > ReplyLines(results[c])
       THEN /\ spc' = [spc EXCEPT ![c] = "RECEIVING"]
            /\ step' = [step EXCEPT ![c] = 0]
       ELSE /\ step' = [step EXCEPT ![c] = @ + 1]
            /\ UNCHANGED spc
    /\ UNCHANGED <<alive, srvErr, indexDir, dialers, trapdoors, results, listed,
                   inbox, cpc, budget, sent, got>>
    /\ UNCHANGED <<cryptoVars, buildVars, keyVars, codecVars, filtVars>>

---------------------------------------------------------------------------
(* siSearchClient, and peers that are not siSearchClient *)

\* the position of the first occurrence of tok in s, 0 when there is none
RECURSIVE IndexOf(_, _, _)
IndexOf(s, tok, i) ==
    IF i > Len(s) THEN 0
    ELSE IF s[i] = tok THEN i
    ELSE IndexOf(s, tok, i + 1)

\* main, lines 110-123: build the trapdoors of a keyword and send them.  On
\* a connection the server has closed the bytes are lost, and Encode either
\* does not notice or returns an error, on which errorCheck exits.
ClientSearch(c, w) ==
    /\ cpc[c] = "prompt"
    /\ Len(sent[c]) < budget[c]
    /\ UNCHANGED hashKeys
    /\ \E h \in Extensions(hmac, {<<w>>} \X Range(hashKeys)) :
         /\ hmac' = h
         /\ inbox' = [inbox EXCEPT ![c] =
                 IF spc[c] = "CLOSED" THEN @
                 ELSE Append(@, jsonEncode(Slice(BuildTrapdoors(h, w, hashKeys))))]
    /\ \E noticed \in {b \in BOOLEAN : b => spc[c] = "CLOSED"} :
         IF noticed
         THEN /\ cpc' = [cpc EXCEPT ![c] = "closed"]
              /\ UNCHANGED sent
         ELSE /\ cpc' = [cpc EXCEPT ![c] = "reading"]
              /\ sent' = [sent EXCEPT ![c] = Append(@, w)]
    /\ UNCHANGED <<alive, srvErr, indexDir, dialers, spc, trapdoors, results, step, listed,
                   written, outbox, budget, got>>
    /\ UNCHANGED <<buildVars, keyVars, codecVars, filtVars>>

\* main, line 126: ReadString('>') returns the text up to the first ">", or
\* what is left of the stream when the server has closed it; the error is
\* discarded
ClientRead(c) ==
    /\ cpc[c] = "reading"
    /\ LET at == IndexOf(outbox[c], ">", 1)
           end == IF at > 0 THEN at ELSE Len(outbox[c])
       IN  /\ at > 0 \/ spc[c] = "CLOSED"
           /\ got' = [got EXCEPT ![c] = Append(@, SubSeq(outbox[c], 1, end))]
           /\ outbox' = [outbox EXCEPT ![c] = SubSeq(@, end + 1, Len(@))]
    /\ cpc' = [cpc EXCEPT ![c] = "prompt"]
    /\ UNCHANGED <<alive, srvErr, indexDir, dialers, spc, trapdoors, results, step, listed,
                   written, inbox, budget, sent>>
    /\ UNCHANGED <<cryptoVars, buildVars, keyVars, codecVars, filtVars>>

\* main, lines 99-108: the user keys x; null is sent and the connection
\* closed, and the client ends whether or not Encode returned an error
ClientQuit(c) ==
    /\ cpc[c] = "prompt"
    /\ inbox' = [inbox EXCEPT ![c] =
                    IF spc[c] = "CLOSED" THEN @ ELSE Append(@, jsonEncode(NilSlice))]
    /\ cpc' = [cpc EXCEPT ![c] = "closed"]
    /\ UNCHANGED <<alive, srvErr, indexDir, dialers, spc, trapdoors, results, step, listed,
                   written, outbox, budget, sent, got>>
    /\ UNCHANGED <<cryptoVars, buildVars, keyVars, codecVars, filtVars>>

\* the peer goes away without a word: the client is killed, the network drops
PeerDisconnects(c) ==
    /\ alive
    /\ cpc[c] \in {"prompt", "reading", "waiting"}
    /\ cpc' = [cpc EXCEPT ![c] = "closed"]
    /\ UNCHANGED <<alive, srvErr, indexDir, dialers, spc, trapdoors, results, step, listed,
                   written, inbox, outbox, budget, sent, got>>
    /\ UNCHANGED <<cryptoVars, buildVars, keyVars, codecVars, filtVars>>

\* a peer sends bytes that are no JSON array of strings, and waits
PeerSendsGarbage(c) ==
    /\ alive
    /\ cpc[c] = "prompt"
    /\ inbox[c] = <<>>
    /\ inbox' = [inbox EXCEPT ![c] = Append(@, GarbageFrame)]
    /\ cpc' = [cpc EXCEPT ![c] = "waiting"]
    /\ UNCHANGED <<alive, srvErr, indexDir, dialers, spc, trapdoors, results, step, listed,
                   written, outbox, budget, sent, got>>
    /\ UNCHANGED <<cryptoVars, buildVars, keyVars, codecVars, filtVars>>

\* a peer sends the empty JSON array [], a request of no trapdoors, and
\* waits; sent records it as a search for no keyword
PeerSendsEmptyArray(c) ==
    /\ alive
    /\ cpc[c] = "prompt"
    /\ Len(sent[c]) < budget[c]
    /\ inbox' = [inbox EXCEPT ![c] = Append(@, jsonEncode(Slice(<<>>)))]
    /\ sent' = [sent EXCEPT ![c] = Append(@, "")]
    /\ cpc' = [cpc EXCEPT ![c] = "reading"]
    /\ UNCHANGED <<alive, srvErr, indexDir, dialers, spc, trapdoors, results, step, listed,
                   written, outbox, budget, got>>
    /\ UNCHANGED <<cryptoVars, buildVars, keyVars, codecVars, filtVars>>

---------------------------------------------------------------------------
(* The index files a build leaves for the server *)

RECURSIVE AddKeywords(_, _, _, _, _)
\* main, lines 225-228: the keyword loop, from keyword i on
AddKeywords(h, bitArray, path, i, ks) ==
    IF i > Len(DocCatalogue[path].Keywords) THEN bitArray
    ELSE AddKeywords(h, Add(bitArray, Build(h, FileName(path),
                                         DocCatalogue[path].Keywords[i], ks)),
                     path, i + 1, ks)

\* main, lines 206-231: the blinded filter of a document; seed gives the
\* first and the filling byte of the random buffer
BuiltIndex(h, path, ks, seed) ==
    LET n == Len(DocCatalogue[path].Keywords)
        b_f == BlindingFactor(n, DocCatalogue[path].RawTextLen, Len(ks))
    IN  Blind(AddKeywords(h, Create(n, Len(ks), S_F), path, 1, ks),
              [i \in 1..b_f |-> IF i = 1 THEN seed[1] ELSE seed[2]])

\* the documents main writes an index for: the others end it with a panic
Buildable == {path \in DOMAIN DocCatalogue :
                 IndexFlag(path) /\ Len(DocCatalogue[path].Keywords) > 0}

\* the directory after a build of built with ks, with the stray files added
DirectoryAfter(h, built, strays, ks, seed) ==
    LET present == built \cup {d \o <<".sindex">> : d \in built} \cup strays
        listing == Walk(ServerRoot, present)
    IN  [i \in 1..Len(listing) |->
            [path |-> listing[i],
             content |->
                IF listing[i] \in strays THEN StrayCatalogue[listing[i]]
                ELSE IF ~HasSuffix(listing[i], ".sindex")
                THEN [err |-> FALSE, records |-> <<>>]
                ELSE [err |-> FALSE,
                      records |-> <<FormatIndex(BuiltIndex(h,
                          SubSeq(listing[i], 1, Len(listing[i]) - 1), ks, seed))>>]]]

ServerIdle ==
    /\ alive = FALSE
    /\ srvErr = ""
    /\ indexDir = <<>>
    /\ dialers = {}
    /\ spc = [c \in Conns |-> "LISTENING"]
    /\ trapdoors = [c \in Conns |-> Slice(<<>>)]
    /\ results = [c \in Conns |-> <<>>]
    /\ step = [c \in Conns |-> 0]
    /\ listed = [c \in Conns |-> FALSE]
    /\ written = [c \in Conns |-> <<>>]
    /\ inbox = [c \in Conns |-> <<>>]
    /\ outbox = [c \in Conns |-> <<>>]
    /\ cpc = [c \in Conns |-> "idle"]
    /\ budget = [c \in Conns |-> 0]
    /\ sent = [c \in Conns |-> <<>>]
    /\ got = [c \in Conns |-> <<>>]

\* the server listening, no connection accepted yet
ServerStart ==
    /\ alive = TRUE
    /\ srvErr = ""
    /\ spc = [c \in Conns |-> "LISTENING"]
    /\ trapdoors = [c \in Conns |-> Slice(<<>>)]
    /\ results = [c \in Conns |-> <<>>]
    /\ step = [c \in Conns |-> 0]
    /\ listed = [c \in Conns |-> FALSE]
    /\ written = [c \in Conns |-> <<>>]
    /\ inbox = [c \in Conns |-> <<>>]
    /\ outbox = [c \in Conns |-> <<>>]
    /\ cpc = [c \in Conns |-> "idle"]
    /\ sent = [c \in Conns |-> <<>>]
    /\ got = [c \in Conns |-> <<>>]

---------------------------------------------------------------------------
(* The files of the scheme: encoding/hex and encoding/csv as writeKeyFile,
   readKeyfile, writeSecureIndexFile and ReadSecureIndexFile use them.  The
   text of a file is a sequence of characters. *)

MaxBits == 4

hextable ==
    <<"0", "1", "2", "3", "4", "5", "6", "7",
      "8", "9", "a", "b", "c", "d", "e", "f">>

\* hex.EncodeToString: two characters for every byte, the high half first
EncodeToString(src) ==
    [j \in 1..2 * Len(src) |->
        IF j % 2 = 1 THEN hextable[(src[(j + 1) \div 2] \div 16) + 1]
        ELSE hextable[(src[j \div 2] % 16) + 1]]

\* the value of a hexadecimal character, -1 for any other character
fromHexChar(c) ==
    LET upper == <<"A", "B", "C", "D", "E", "F">>
    IN  IF \E v \in 1..16 : hextable[v] = c
        THEN (CHOOSE v \in 1..16 : hextable[v] = c) - 1
        ELSE IF \E v \in 1..6 : upper[v] = c
             THEN (CHOOSE v \in 1..6 : upper[v] = c) + 9
             ELSE -1

\* hex.DecodeString: an error for an odd length or a character that is no
\* hexadecimal digit
DecodeString(str) ==
    LET bad == \/ Len(str) % 2 = 1
               \/ \E j \in 1..Len(str) : fromHexChar(str[j]) < 0
    IN  [err |-> bad,
         bytes |-> IF bad THEN <<>>
                   ELSE [i \in 1..Len(str) \div 2 |->
                            16 * fromHexChar(str[2 * i - 1])
                               + fromHexChar(str[2 * i])]]

\* the fields of a record with commas between them
RECURSIVE JoinFields(_)
JoinFields(record) ==
    IF record = <<>> THEN <<>>
    ELSE IF Len(record) = 1 THEN Head(record)
    ELSE Head(record) \o <<",">> \o JoinFields(Tail(record))

\* a csv.Writer with the fields reversed
csvWriteReversed(record) ==
    JoinFields([i \in 1..Len(record) |-> record[Len(record) + 1 - i]])
        \o <<"\n">>

\* csv.Writer.Write followed by Flush: one line for the record.  The fields
\* written here hold hexadecimal digits or one of "0" and "1", so none is
\* quoted.
csvWrite(record) == JoinFields(record) \o <<"\n">>

\* strings.Split: the pieces of str between the separators.  Piece k lies
\* between the separator of rank k - 1 and the one of rank k.
SplitOn(str, sep) ==
    LET seps == {i \in 1..Len(str) : str[i] = sep}
        rank(p) == Cardinality({q \in seps : q < p})
        from(k) == CHOOSE p \in seps \cup {0} : rank(p + 1) = k - 1
        upto(k) == CHOOSE p \in seps \cup {Len(str) + 1} : rank(p) = k - 1
    IN  [k \in 1..Cardinality(seps) + 1 |->
            SubSeq(str, from(k) + 1, upto(k) - 1)]

\* csv.Reader.Read until io.EOF: empty lines are skipped, and a record with
\* another number of fields than the first is an error
csvRead(fileText) ==
    LET lines == SelectSeq(SplitOn(fileText, "\n"),
                           LAMBDA l : l # <<>>)
        recs == [i \in 1..Len(lines) |-> SplitOn(lines[i], ",")]
    IN  [err |-> \E i \in 1..Len(recs) : Len(recs[i]) # Len(recs[1]),
         records |-> recs]

\* the Go string of a sequence of characters
RECURSIVE GoString(_)
GoString(chars) ==
    IF chars = <<>> THEN "" ELSE Head(chars) \o GoString(Tail(chars))

\* writeToCSV: the text of the file it leaves, empty when the write failed
\* after os.Create had made the file
writeToCSVText(outcome, record) ==
    IF outcome = "written" THEN csvWrite(record) ELSE <<>>

\* writeKeyFile: the text of the file filepath + ".sindex.private"
writeKeyFile(outcome, keySchedule) ==
    writeToCSVText(outcome,
        [x \in 1..Len(keySchedule) |-> EncodeToString(keySchedule[x])])

\* readKeyfile: every field of every record decoded, in order; an error
\* when os.Open fails, a record is rejected or a field is no hexadecimal
readKeyfile(file) ==
    LET content == csvRead(file.text)
        fields  == Flatten(content.records)
        decoded == [i \in 1..Len(fields) |-> DecodeString(fields[i])]
    IN  IF \/ ~file.exists
           \/ content.err
           \/ \E i \in 1..Len(fields) : decoded[i].err
        THEN [err |-> TRUE, keys |-> <<>>]
        ELSE [err |-> FALSE,
              keys |-> [i \in 1..Len(fields) |-> decoded[i].bytes]]

\* writeSecureIndexFile: the text of the file filepath + ".sindex"
writeSecureIndexFile(outcome, indexArray) ==
    writeToCSVText(outcome,
        [i \in 1..Len(indexArray) |-> <<FormatIndex(indexArray)[i]>>])

\* what the csv.Reader of ReadSecureIndexFile hands to its loop
IndexFileContent(fileText) ==
    LET content == csvRead(fileText)
    IN  [err |-> content.err,
         records |-> [r \in 1..Len(content.records) |->
                        [f \in 1..Len(content.records[r]) |->
                            GoString(content.records[r][f])]]]

\* a file before writeToCSV is called, and after it with an outcome
NoFile == [outcome |-> "", exists |-> FALSE, text |-> <<>>]
FileLeft(outcome, fileText) ==
    [outcome |-> outcome, exists |-> outcome # "createFails", text |-> fileText]
NotReadKeys == [done |-> FALSE, err |-> FALSE, keys |-> <<>>]
NotReadBits == [done |-> FALSE, err |-> FALSE, si |-> <<>>]

CodecIdle ==
    /\ wKeys = <<>>
    /\ wBits = <<>>
    /\ keyFile = NoFile
    /\ indexFile = NoFile
    /\ rKeys = NotReadKeys
    /\ rBits = NotReadBits

\* the key schedules and bit arrays written
KeyFileSchedules == SeqsUpTo(HashKeySample \cup RandomBytes(KeyBytes), MaxKeys)
BitArrays == SeqsUpTo(BOOLEAN, MaxBits)

\* the builder saves the key schedule; main exits on the error of os.Create
WriteKeyFile ==
    /\ keyFile.outcome = ""
    /\ \E outcome \in WriteOutcomes :
         keyFile' = FileLeft(outcome, writeKeyFile(outcome, wKeys))
    /\ UNCHANGED <<wKeys, wBits, indexFile, rKeys, rBits>>
    /\ UNCHANGED <<cryptoVars, buildVars, keyVars, filtVars, srvVars>>

\* the builder or the client loads the key schedule from the path
ReadKeyFile ==
    /\ keyFile.outcome # ""
    /\ ~rKeys.done
    /\ \E read \in {readKeyfile(keyFile)} :
         rKeys' = [done |-> TRUE, err |-> read.err, keys |-> read.keys]
    /\ UNCHANGED <<wKeys, wBits, keyFile, indexFile, rBits>>
    /\ UNCHANGED <<cryptoVars, buildVars, keyVars, filtVars, srvVars>>

\* the builder saves a secure index; main exits on the error of os.Create
WriteIndexFile ==
    /\ indexFile.outcome = ""
    /\ \E outcome \in WriteOutcomes :
         indexFile' = FileLeft(outcome, writeSecureIndexFile(outcome, wBits))
    /\ UNCHANGED <<wKeys, wBits, keyFile, rKeys, rBits>>
    /\ UNCHANGED <<cryptoVars, buildVars, keyVars, filtVars, srvVars>>

\* the server loads a secure index that its walk has found
ReadIndexFile ==
    /\ indexFile.exists
    /\ ~rBits.done
    /\ \E read \in {ReadSecureIndexFile(IndexFileContent(indexFile.text))} :
         rBits' = [done |-> TRUE, err |-> read.err, si |-> read.si]
    /\ UNCHANGED <<wKeys, wBits, keyFile, indexFile, rKeys>>
    /\ UNCHANGED <<cryptoVars, buildVars, keyVars, filtVars, srvVars>>

---------------------------------------------------------------------------
(* Specifications *)

\* the index builder, started on any batch with any key schedule
InitBuild ==
    /\ files \in Batches
    /\ fileEncrypt \in BOOLEAN
    /\ hashKeys \in KeySchedules
    /\ hmac \in HmacChoices(BatchKeywords(files), Range(hashKeys), BatchNames(files))
    /\ fileIdx = 1
    /\ bpc = "loop"
    /\ text = [Keywords |-> <<>>, RawTextLen |-> 0]
    /\ filter = <<>>
    /\ kwIdx = 0
    /\ disk = <<>>
    /\ stderr = <<>>
    /\ failedAt = {}
    /\ KeysIdle /\ FilterIdle /\ ServerIdle /\ CodecIdle

BuildNext ==
    \/ SkipFile
    \/ StartFile
    \/ AddKeyword
    \/ BlindIndex
    \/ WriteIndex
    \/ EncryptFile
    \/ FinishBuild

SpecBuild == InitBuild /\ [][BuildNext]_vars

\* GenerateHashKeys, called with any sampled probability
InitKeys ==
    /\ fp \in FpSample
    /\ keys = <<>>
    /\ kLoop = 0
    /\ kpc = "loop"
    /\ BuildIdle /\ CryptoIdle /\ FilterIdle /\ ServerIdle /\ CodecIdle

KeysNext == GenerateKey \/ ReturnKeys

SpecKeys == InitKeys /\ [][KeysNext]_vars

\* the Bloom filter, created with any sampled counts and scaling
InitFilter ==
    /\ fHashes \in 0..MaxCount
    /\ fKeywords \in 1..MaxCount + 1
    /\ fScaling \in ScalingSample
    /\ bits = <<>>
    /\ fpc = "new"
    /\ FilterUncalled
    /\ BuildIdle /\ CryptoIdle /\ KeysIdle /\ ServerIdle /\ CodecIdle

FilterNext == CreateFilter \/ AddCodewords

SpecFilter == InitFilter /\ [][FilterNext]_vars

\* the Bloom filter of a document of up to MaxKeys keywords under up to
\* MaxKeys keys, with the calls Add and Search made on it in any order
InitCalls ==
    /\ fHashes \in 0..MaxKeys
    /\ fKeywords \in 1..MaxKeys
    /\ fScaling = S_F
    /\ bits = <<>>
    /\ fpc = "new"
    /\ FilterUncalled
    /\ BuildIdle /\ CryptoIdle /\ KeysIdle /\ ServerIdle /\ CodecIdle

CallsNext == CreateFilter \/ AddCodewords \/ SearchCodewords

SpecCalls == InitCalls /\ [][CallsNext]_vars

\* a key schedule and a bit array, each written to its file and read back
InitCodec ==
    /\ wKeys \in KeyFileSchedules
    /\ wBits \in BitArrays
    /\ keyFile = NoFile
    /\ indexFile = NoFile
    /\ rKeys = NotReadKeys
    /\ rBits = NotReadBits
    /\ BuildIdle /\ CryptoIdle /\ KeysIdle /\ FilterIdle /\ ServerIdle

CodecNext == WriteKeyFile \/ ReadKeyFile \/ WriteIndexFile \/ ReadIndexFile

SpecCodec == InitCodec /\ [][CodecNext]_vars

ServerNext ==
    \/ \E c \in Conns : Accept(c)
    \/ \E c \in Conns : Receive(c)
    \/ \E c \in Conns : SearchIndexes(c)
    \/ \E c \in Conns : ListFile(c)
    \/ \E c \in Conns : SearchFile(c)
    \/ \E c \in Conns : Reply(c)
    \/ \E c \in Conns, w \in Keywords : ClientSearch(c, w)
    \/ \E c \in Conns : ClientRead(c)
    \/ \E c \in Conns : ClientQuit(c)
    \/ \E c \in Conns : PeerDisconnects(c)
    \/ \E c \in Conns : PeerSendsGarbage(c)

\* one client searching a directory built from any documents with one key
InitSearch ==
    /\ dialers = {1}
    /\ budget = [c \in Conns |-> MaxRequests]
    /\ hashKeys \in {ks \in KeySchedules : Len(ks) = 1}
    /\ \E built \in SubsetsUpTo(Buildable, MaxFiles),
          strays \in SubsetsUpTo(DOMAIN StrayCatalogue, 1) :
         /\ hmac \in HmacChoices(BatchKeywords(Walk(BuildRoot, built)), Range(hashKeys),
                                 BatchNames(Walk(BuildRoot, built)))
         /\ indexDir = DirectoryAfter(hmac, built, strays, hashKeys, <<1, 1>>)
    /\ ServerStart
    /\ BuildIdle /\ KeysIdle /\ FilterIdle /\ CodecIdle

SpecSearch == InitSearch /\ [][ServerNext]_vars

\* every client dialling a server whose directory holds at most one built
\* index and one stray file
InitServer ==
    /\ dialers = Conns
    /\ budget = [c \in Conns |-> 1]
    /\ hashKeys \in {ks \in KeySchedules : Len(ks) = 1}
    /\ \E built \in SubsetsUpTo({<<"test", "/", "a", ".txt">>}, 1),
          strays \in SubsetsUpTo(DOMAIN StrayCatalogue, 1) :
         /\ hmac \in HmacChoices(BatchKeywords(Walk(BuildRoot, built)), Range(hashKeys),
                                 BatchNames(Walk(BuildRoot, built)))
         /\ indexDir = DirectoryAfter(hmac, built, strays, hashKeys, <<1, 1>>)
    /\ ServerStart
    /\ BuildIdle /\ KeysIdle /\ FilterIdle /\ CodecIdle

SpecServer == InitServer /\ [][ServerNext]_vars

\* one peer on a directory that holds at most one built index and one stray
\* file
InitPeers ==
    /\ dialers = {1}
    /\ budget = [c \in Conns |-> MaxRequests]
    /\ hashKeys \in {ks \in KeySchedules : Len(ks) = 1}
    /\ \E built \in SubsetsUpTo(Buildable, 1),
          strays \in SubsetsUpTo(DOMAIN StrayCatalogue, 1) :
         /\ hmac \in HmacChoices(BatchKeywords(Walk(BuildRoot, built)), Range(hashKeys),
                                 BatchNames(Walk(BuildRoot, built)))
         /\ indexDir = DirectoryAfter(hmac, built, strays, hashKeys, <<1, 1>>)
    /\ ServerStart
    /\ BuildIdle /\ KeysIdle /\ FilterIdle /\ CodecIdle

\* the server with a peer that also sends requests of no trapdoors
PeersNext ==
    \/ \E c \in Conns : Accept(c)
    \/ \E c \in Conns : Receive(c)
    \/ \E c \in Conns : SearchIndexes(c)
    \/ \E c \in Conns : ListFile(c)
    \/ \E c \in Conns : SearchFile(c)
    \/ \E c \in Conns : Reply(c)
    \/ \E c \in Conns, w \in Keywords : ClientSearch(c, w)
    \/ \E c \in Conns : ClientRead(c)
    \/ \E c \in Conns : ClientQuit(c)
    \/ \E c \in Conns : PeerDisconnects(c)
    \/ \E c \in Conns : PeerSendsGarbage(c)
    \/ \E c \in Conns : PeerSendsEmptyArray(c)

SpecPeers == InitPeers /\ [][PeersNext]_vars

---------------------------------------------------------------------------
(* Properties *)

\* C1: once every keyword of the document has been inserted and the filter
\* has been blinded, Search with the codewords of any keyword of the document,
\* made from the same file name and key schedule, returns true.
NoFalseNegatives ==
    bpc = "write" =>
        \A w \in Range(text.Keywords) :
            Search(filter, BuildCodewords(hmac, FileName(CurFile),
                                          BuildTrapdoors(hmac, w, hashKeys)))

\* a blinded filter of two keywords under two keys that still has a zero bit
NoFalseNegativesWitness ==
    /\ bpc = "write"
    /\ Len(text.Keywords) = 2
    /\ Len(hashKeys) = 2
    /\ \E i \in DOMAIN filter : ~filter[i]
    /\ Cardinality({i \in DOMAIN filter : filter[i]}) >= 2

\* m is the integer nearest to a / b, a half counted upwards
IsNearest(m, a, b) == 2 * (m * b - a) <= b /\ 2 * (a - m * b) < b

\* C9 as amended: the filter made by Create has round((n * s * k) / ln 2) bits,
\* the nearest integer (45 for n = 3, s = 1.5, k = 7), and Add never changes
\* the length.
FilterSizingRounded ==
    fpc = "created" =>
        /\ IsNearest(Len(bits), fHashes * fKeywords * fScaling.num * Ln2Den,
                     fScaling.den * Ln2Num)
        /\ (fHashes = 3 /\ fKeywords = 7 /\ fScaling = S_F => Len(bits) = 45)

\* the filter of n = 3, s = 1.5, k = 7 after an Add has set a bit
FilterSizingWitness ==
    /\ fpc = "created"
    /\ fHashes = 3 /\ fKeywords = 7 /\ fScaling = S_F
    /\ Len(bits) = 45
    /\ \E i \in DOMAIN bits : bits[i]

\* C9 as stated: the filter has ceil((n * s * k) / ln 2) bits (46 for n = 3,
\* s = 1.5, k = 7).
FilterSizingCeil ==
    fpc = "created" =>
        /\ LET a == fHashes * fKeywords * fScaling.num * Ln2Den
               b == fScaling.den * Ln2Num
           IN  Len(bits) = (a + b - 1) \div b
        /\ (fHashes = 3 /\ fKeywords = 7 /\ fScaling = S_F => Len(bits) = 46)

\* C10 as stated: GenerateHashKeys(p) returns ceil(|log2 p|) keys of 16 bytes,
\* 7 of them for p = 0.01.
KeyCountCeil ==
    kpc = "done" =>
        /\ LET big == Max(fp.num, fp.den)
               small == IF fp.num >= fp.den THEN fp.den ELSE fp.num
           IN  /\ big <= Pow2(Len(keys)) * small
               /\ Len(keys) > 0 => big > Pow2(Len(keys) - 1) * small
        /\ \A i \in DOMAIN keys : Len(keys[i]) = KeyBytes
        /\ (fp = F_P => Len(keys) = 7)


---------------------------------------------------------------------------
(* Properties of the search server and its clients *)

\* the lines of a response that follow "Keyword matches found:"
MatchList(response) ==
    IF IndexOf(response, HdrMatches, 1) = 0 THEN <<>>
    ELSE SubSeq(response, IndexOf(response, HdrMatches, 1) + 1, Len(response))

\* the list holds the line " -name"
HasLine(list, name) ==
    \E k \in 1..Len(list) :
        /\ k + Len(name) + 1 <= Len(list)
        /\ SubSeq(list, k, k + Len(name) + 1) = <<" -">> \o name \o <<"\n">>

\* the response is written up to its closing ">"
IsComplete(response) == response # <<>> /\ response[Len(response)] = ">"

\* the documents of the directory that were built into an index
BuiltDocs == {indexDir[i].path : i \in DOMAIN indexDir} \cap DOMAIN DocCatalogue

\* C2: when the client has sent the trapdoors of keyword w and the server has
\* answered, the list of matches holds the identifier (the file name) of
\* every built document whose keyword list contains w.
EndToEndSearch ==
    \A c \in Conns : \A j \in 1..Len(written[c]) :
        (j <= Len(sent[c]) /\ IsComplete(written[c][j])) =>
            \A d \in BuiltDocs :
                sent[c][j] \in Range(DocCatalogue[d].Keywords) =>
                    HasLine(MatchList(written[c][j]), FileName(d))

\* the step reads a frame from the stream of connection c
ReadsFrame(c) ==
    /\ alive
    /\ spc[c] = "RECEIVING"
    /\ inbox[c] # <<>>
    /\ inbox'[c] = Tail(inbox[c])

\* C3: when the server reads a JSON null as the request frame of a
\* connection, it closes that connection without a search and without
\* writing a reply, and the process and every other connection go on as they
\* were.
NullClosesOnlyThatConnection ==
    [][\A c \in Conns :
          (ReadsFrame(c) /\ Head(inbox[c]) = NullFrame) =>
              /\ spc'[c] = "CLOSED"
              /\ outbox'[c] = outbox[c]
              /\ written'[c] = written[c]
              /\ results'[c] = results[c]
              /\ alive'
              /\ srvErr' = ""
              /\ \A d \in Conns \ {c} : spc'[d] = spc[d]]_vars

\* a connection closed by the sentinel while another one is searching
NullClosesWitness ==
    \E c \in Conns, d \in Conns :
        /\ c # d
        /\ alive
        /\ spc[c] = "CLOSED"
        /\ trapdoors[c].nil
        /\ inbox[c] = <<>>
        /\ outbox[c] = <<>>
        /\ spc[d] = "SEARCHING"

\* the stream of connection c has a frame that does not decode, or has ended
WireError(c) ==
    IF inbox[c] = <<>> THEN cpc[c] = "closed"
    ELSE jsonDecode(Head(inbox[c])).err

\* C4: a step in which the server meets a decode failure or the end of the
\* stream on a connection closes that connection only: the process keeps
\* running and no other connection changes its state.
WireErrorIsolated ==
    [][\A c \in Conns :
          (alive /\ spc[c] = "RECEIVING" /\ WireError(c)
                 /\ srvErr' = MsgDecode) =>
              /\ alive'
              /\ \A d \in Conns \ {c} : spc'[d] = spc[d]]_vars

\* a CSV parse error, or a field that is neither "0" nor "1"
Malformed(content) ==
    \/ content.err
    \/ \E r \in DOMAIN content.records : \E f \in DOMAIN content.records[r] :
          content.records[r][f] \notin {"0", "1"}

\* C5: a malformed index file neither ends the process nor is reported as a
\* match: the server stays up and no list of matches names its document.
MalformedIndexSkipped ==
    /\ srvErr # MsgIndex
    /\ \A i \in DOMAIN indexDir :
          (HasSuffix(indexDir[i].path, ".sindex") /\ Malformed(indexDir[i].content)) =>
              \A c \in Conns : \A j \in 1..Len(written[c]) :
                  ~HasLine(MatchList(written[c][j]), RecoveredName(indexDir[i].path))

\* C6: when the write of the index file of a document has met an I/O error,
\* the error is reported on stderr and the build goes on with the next
\* document instead of exiting.
WriteFailureIsolated ==
    failedAt # {} => (stderr # <<>> /\ bpc # "exit")

\* C7: the j-th text the client reads is the whole j-th response the server
\* wrote on the connection, and every response holds exactly one ">".
ClientReadsJthResponse ==
    \A c \in Conns :
        /\ \A j \in 1..Len(got[c]) :
              j <= Len(written[c]) /\ got[c][j] = written[c][j]
        /\ \A j \in 1..Len(written[c]) :
              Cardinality({k \in DOMAIN written[c][j] : written[c][j][k] = ">"}) <= 1

\* C8: every change of state of a connection is one of the transitions of the
\* per-connection state machine; CLOSED is entered from RECEIVING (or after a
\* reply) only, and never left.
ConnectionStateMachine ==
    [][\A c \in Conns :
          spc'[c] # spc[c] =>
              <<spc[c], spc'[c]>> \in
                  {<<"LISTENING", "RECEIVING">>, <<"RECEIVING", "SEARCHING">>,
                   <<"SEARCHING", "REPLYING">>, <<"REPLYING", "RECEIVING">>,
                   <<"REPLYING", "CLOSED">>, <<"RECEIVING", "CLOSED">>}]_vars

---------------------------------------------------------------------------
(* Properties of the filter, the codecs and the builder's choice of files *)

\* C11: a filter created for n = 0 keywords is empty, and every Add and
\* every Search on it completes without a fault, Add leaving it empty and
\* Search returning false.
EmptyFilterNoFault ==
    (fHashes = 0 /\ fpc \in {"created", "panic"}) =>
        /\ bits = <<>>
        /\ fpc # "panic"
        /\ (fOp = "Search" => ~fFound)

\* C12: a key file written from a key schedule reads back as the same keys,
\* byte for byte and in the same order, and an index file written from a bit
\* array reads back as a bit array of the same length with the same values.
CodecRoundTrip ==
    /\ (rKeys.done /\ keyFile.outcome = "written") =>
          (~rKeys.err /\ rKeys.keys = wKeys)
    /\ (rBits.done /\ indexFile.outcome = "written") =>
          /\ ~rBits.err
          /\ Len(rBits.si) = Len(wBits)
          /\ \A i \in 1..Len(wBits) : rBits.si[i] = wBits[i]

\* two different keys and a bit array of both values have been read back
CodecRoundTripWitness ==
    /\ keyFile.outcome = "written" /\ indexFile.outcome = "written"
    /\ rKeys.done /\ Len(wKeys) = 2 /\ wKeys[1] # wKeys[2]
    /\ \E i \in 1..KeyBytes : wKeys[1][i] > 127
    /\ rBits.done /\ Len(wBits) >= 3
    /\ wBits[1] /\ ~wBits[2]

\* the number of set bits of the index file written at path, a document's
\* path with ".sindex" appended
IndexPopCount(path) ==
    Cardinality({i \in 1..Len(disk[path][1]) : disk[path][1][i] = "1"})

\* the documents whose index file has been written in full
Indexed ==
    {d \in DOMAIN DocCatalogue :
        /\ d \o <<".sindex">> \in DOMAIN disk
        /\ disk[d \o <<".sindex">>] # <<>>}

\* C13: blinding hides the keyword count: the number of set bits of a
\* blinded index is determined by the document length L and the number of
\* keys k, so two documents of one build (one k) with the same L have
\* indexes with the same number of set bits, whatever their keyword counts.
BlindingHidesKeywordCount ==
    \A d \in Indexed, e \in Indexed :
        DocCatalogue[d].RawTextLen = DocCatalogue[e].RawTextLen
            => IndexPopCount(d \o <<".sindex">>)
                  = IndexPopCount(e \o <<".sindex">>)

\* C14: once the server has answered a request, the identifier it recovered
\* from the name of each index file it searched (the base name without its
\* .sindex suffix) is the identifier the builder hashed for that document,
\* the base name of the document.
IdentifierAgreement ==
    (\E c \in Conns : written[c] # <<>>) =>
        \A d \in BuiltDocs :
            \A i \in DOMAIN indexDir :
                indexDir[i].path = d \o <<".sindex">> =>
                    RecoveredName(indexDir[i].path) = FileName(d)

\* the index of the byte that ends the varint at the head of c, the first
\* byte below 128; 0 when c has none
VarintEnd(c) ==
    IF \E i \in 1..Len(c) : c[i] < 128
    THEN CHOOSE i \in 1..Len(c) :
            c[i] < 128 /\ \A j \in 1..i - 1 : c[j] >= 128
    ELSE 0

\* the varint at the head of c needs more than 64 bits
Overflows(c) ==
    \/ VarintEnd(c) > MaxVarintLen64
    \/ VarintEnd(c) = MaxVarintLen64 /\ c[MaxVarintLen64] > 1
    \/ VarintEnd(c) = 0 /\ Len(c) > MaxVarintLen64

\* 128^e mod m
RECURSIVE Pow128Mod(_, _)
Pow128Mod(e, m) == IF e = 0 THEN 1 % m ELSE (Pow128Mod(e - 1, m) * 128) % m

\* the value of the first n base-128 digits of c, the last taken mod last,
\* reduced mod m
PrefixMod(c, n, last, m) ==
    LET term[i \in 0..n] ==
            IF i = 0 THEN 0
            ELSE (term[i - 1]
                    + ((IF i = n THEN c[i] % last ELSE c[i] % 128)
                          * Pow128Mod(i - 1, m))) % m
    IN  term[n]

\* pos(c, m) with the value 0 for a varint that overflows or does not end
PosZeroOnOverflow(c, m) ==
    IF Overflows(c) \/ VarintEnd(c) = 0 THEN 0
    ELSE PrefixMod(c, VarintEnd(c), 128, m)

\* C15, as the code has it: Add sets the bit at pos(c, m) for each codeword
\* c, where pos decodes the leading bytes of c as a little-endian base-128
\* varint and reduces the value mod m, and where a varint that overflows 64
\* bits (or does not end within the buffer) counts as the value 0.  An Add
\* of one codeword to a clear filter sets that bit and no other.
PositionZeroOnOverflow ==
    [][(fOp' = "Add" /\ fpc' = "created" /\ Len(bits) > 0) =>
          /\ \A j \in 1..Len(fArg') :
                bits'[PosZeroOnOverflow(fArg'[j], Len(bits)) + 1]
          /\ (Len(fArg') = 1 /\ \A i \in 1..Len(bits) : ~bits[i]) =>
                \A i \in 1..Len(bits) :
                    bits'[i] <=> i = PosZeroOnOverflow(fArg'[1], Len(bits)) + 1
      ]_vars

\* an overflowing codeword was added to a filter of several bits, and bit 0
\* is set although the low 64 bits of its prefix address another bit
PositionZeroWitness ==
    /\ fOp = "Add" /\ fpc = "created"
    /\ Len(fArg) = 1 /\ Overflows(fArg[1])
    /\ Len(bits) > 1 /\ bits[1]
    /\ PrefixMod(fArg[1], MaxVarintLen64, 2, Len(bits)) # 0
    /\ ~bits[PrefixMod(fArg[1], MaxVarintLen64, 2, Len(bits)) + 1]

\* C15, as stated: the same, with the low 64 bits of the decoded prefix as
\* the value of a varint that overflows
PositionLow64OnOverflow ==
    [][LET pos(c, m) == IF Overflows(c) THEN PrefixMod(c, MaxVarintLen64, 2, m)
                        ELSE PosZeroOnOverflow(c, m)
       IN  (fOp' = "Add" /\ fpc' = "created" /\ Len(bits) > 0) =>
              /\ \A j \in 1..Len(fArg') : bits'[pos(fArg'[j], Len(bits)) + 1]
              /\ (Len(fArg') = 1 /\ \A i \in 1..Len(bits) : ~bits[i]) =>
                    \A i \in 1..Len(bits) :
                        bits'[i] <=> i = pos(fArg'[1], Len(bits)) + 1
      ]_vars

\* C16: on a filter of m > 0 bits, Add(tuple) sets exactly the bits at
\* pos(c[i], m) for the elements c[i] of the tuple and leaves every other
\* bit and the length as they were; adding the same tuple a second time
\* leaves the filter unchanged.
AddSetsOnlyAddressedBits ==
    [][(fOp' = "Add" /\ fpc' = "created" /\ Len(bits) > 0) =>
          /\ Len(bits') = Len(bits)
          /\ \A i \in 1..Len(bits) :
                bits'[i] <=>
                    \/ bits[i]
                    \/ \E j \in 1..Len(fArg') :
                          findPositions(fArg', Len(bits))[j] + 1 = i
          /\ Add(bits', fArg') = bits'
          /\ (fOp = "Add" /\ fArg' = fArg) => bits' = bits
      ]_vars

\* a tuple of two codewords was added to a filter that keeps a clear bit and
\* has both addressed bits set
AddSetsWitness ==
    /\ fOp = "Add" /\ fpc = "created"
    /\ Len(fArg) = 2 /\ Len(bits) > 2
    /\ findPositions(fArg, Len(bits))[1] # findPositions(fArg, Len(bits))[2]
    /\ \A j \in 1..2 : bits[findPositions(fArg, Len(bits))[j] + 1]
    /\ \E i \in 1..Len(bits) : ~bits[i]

\* C17: a file is indexed, and an index file written for it, if and only if
\* its name ends with one of the extensions .txt, .csv, .rtf and .pdf: every
\* index file on disk belongs to a document of the batch with such a suffix,
\* and once the build is done every such document of the batch has one.
IndexedIffSuffix ==
    /\ \A path \in {q \in DOMAIN disk : HasSuffix(q, ".sindex")} :
          \E f \in 1..Len(files) :
              /\ path = files[f] \o <<".sindex">>
              /\ \E ft \in filetypes : HasSuffix(files[f], ft)
    /\ bpc = "done" =>
          \A f \in 1..Len(files) :
              (\E ft \in filetypes : HasSuffix(files[f], ft)) =>
                  files[f] \o <<".sindex">> \in DOMAIN disk

\* C19: when Blind completes (m > 0 and L >= n), it changes the filter at
\* most by setting one bit: every bit set before is set after, the length is
\* unchanged, and at most one bit differs.
BlindSetsAtMostOneBit ==
    [][(bpc = "keywords" /\ bpc' = "write") =>
          /\ Len(filter') = Len(filter)
          /\ \A i \in 1..Len(filter) : filter[i] => filter'[i]
          /\ Cardinality({i \in 1..Len(filter) : filter'[i] # filter[i]}) <= 1
      ]_vars

\* a blinded filter of several bits with a bit that the keywords of the
\* document did not set
BlindSetsWitness ==
    /\ bpc = "write"
    /\ Len(filter) > 2
    /\ text.RawTextLen > NumKeywords
    /\ filter # AddKeywords(hmac, Create(NumKeywords, Len(hashKeys), S_F),
                            CurFile, 1, hashKeys)

\* C18: an empty, non-null JSON array is not the termination sentinel: the
\* server goes on to search with it, and the search, in which Search on the
\* empty tuple is true for every filter, ends with every index file under
\* the server root among the matches.
EmptyArrayMatchesAll ==
    [][\A c \in Conns :
          /\ (ReadsFrame(c) /\ Head(inbox[c]) = jsonEncode(Slice(<<>>))) =>
                /\ spc'[c] = "SEARCHING"
                /\ alive'
          /\ (alive /\ spc[c] = "SEARCHING" /\ trapdoors[c] = Slice(<<>>)
                  /\ spc'[c] # "SEARCHING") =>
                /\ spc'[c] = "REPLYING"
                /\ \A i \in DOMAIN indexDir :
                      HasSuffix(indexDir[i].path, ".sindex") =>
                          \E k \in 1..Len(results'[c]) :
                              results'[c][k] = Line(RecoveredName(indexDir[i].path))
      ]_vars


=============================================================================
